---- MODULE Spec2Model ----
(***************************************************************************)
(* Model of the dgut Tree query engine (Tree.DirInfo, Tree.Where,          *)
(* Tree.where0) over a dgut store.  The store itself (DB.DirInfo,          *)
(* DB.Children) and the builder that fills it are not part of the          *)
(* sources at hand; they are modelled from the specification's sections    *)
(* 3, 4.1 and 4.2.  The module also holds the walk command (cmd/walk.go)  *)
(* and the multi command with the queue running its jobs.                  *)
(*                                                                         *)
(* A directory path is a sequence of name components: <<>> is "/",         *)
(* <<1, 2>> is "/1/2".                                                     *)
(***************************************************************************)
EXTENDS Integers, Sequences, FiniteSets, Bags, TLC

VARIABLES phase, nobs, db, call, own, callers, wk, queue, mc, uniq

\* own is history: for every directory, the totals of the observed files that
\* lie directly in it.  callers holds, for every concurrent caller of the
\* Tree, the local variables of its call in progress.
\*
\* The commands: wk is a run of 'wrstat walk', mc the calls of 'wrstat multi',
\* queue the jobs in wr's queue and uniq the number of unique strings handed
\* out so far.
vars == <<phase, nobs, db, call, own, callers, wk, queue, mc, uniq>>

\* the variables of the commands
cmdVars == <<wk, queue, mc, uniq>>

\* the variables no step of the builder or of a whole query touches
others == <<callers, cmdVars>>

\* the variables of the store and its queries
treeVars == <<phase, nobs, db, call, own, callers>>

(***************************************************************************)
(* Bounds.                                                                 *)
(***************************************************************************)
\* observations consumed by one build
MaxObs == 3
\* observations consumed by one build when store reads may fail
MaxObsIO == 2
\* file sizes are 0..MaxFileSize bytes
MaxFileSize == 1
\* Where is called with depth 0..MaxDepth
MaxDepth == 2
\* a failing store read is one of the first MaxFailAt reads of a call
MaxFailAt == 4

\* names of directory components
Names == {1, 2}

\* the directories of the scanned subtree: "/", "/1", "/2", "/1/1"
DirUniverse == {<< >>} \cup {<<a>> : a \in Names} \cup {<<1, 1>>}

\* the (group, user, type) combinations files can have
Combinations ==
    {[gid |-> 1, uid |-> 1, ft |-> 1], [gid |-> 1, uid |-> 2, ft |-> 1]}

\* the filters queries are made with: match-all, and the files of user 1
MatchAll == [GIDs |-> {}, UIDs |-> {}, FTs |-> {}]

Filters == {MatchAll, [GIDs |-> {1}, UIDs |-> {1}, FTs |-> {1}]}

(***************************************************************************)
(* Errors and nil.                                                         *)
(***************************************************************************)
NilErr == "nil"
ErrNotFound == "NotFound"
ErrStorageIO == "StorageIOFailure"

\* the nil pointer (*DirInfo or *DirCountSize)
Nil == [nil |-> TRUE]

(***************************************************************************)
(* Paths.                                                                  *)
(***************************************************************************)
Parent(dir) == SubSeq(dir, 1, Len(dir) - 1)

\* dir and every ancestor of it up to the scan root
Ancestors(dir) == {SubSeq(dir, 1, k) : k \in 0..Len(dir)}

Range(s) == {s[i] : i \in DOMAIN s}

IsPrefix(a, b) == Len(a) <= Len(b) /\ SubSeq(b, 1, Len(a)) = a

\* the paths of S, which share a parent, in ascending order
RECURSIVE SortPaths(_)
SortPaths(S) ==
    IF S = {} THEN << >>
    ELSE LET m == CHOOSE p \in S : \A q \in S : p[Len(p)] <= q[Len(q)]
         IN  <<m>> \o SortPaths(S \ {m})

(***************************************************************************)
(* Filter evaluation.                                                      *)
(***************************************************************************)
matches(combo, filter) ==
    /\ (filter.GIDs = {} \/ combo.gid \in filter.GIDs)
    /\ (filter.UIDs = {} \/ combo.uid \in filter.UIDs)
    /\ (filter.FTs = {} \/ combo.ft \in filter.FTs)

(***************************************************************************)
(* The store.  dguts maps every discovered directory to its aggregation    *)
(* values, children maps it to its sorted discovered immediate children.   *)
(***************************************************************************)
EmptyDB == [dguts |-> << >>, children |-> << >>]

Discovered(d) == DOMAIN d.dguts

addToGUTs(guts, combo, size) ==
    [c \in DOMAIN guts \cup {combo} |->
        IF c = combo
        THEN IF combo \in DOMAIN guts
             THEN [count |-> guts[c].count + 1, size |-> guts[c].size + size]
             ELSE [count |-> 1, size |-> size]
        ELSE guts[c]]

\* the store after one more observation of a file in dir
addObservation(d, dir, combo, size) ==
    LET disc == Discovered(d) \cup Ancestors(dir)
        dg   == [a \in disc |->
                    IF a \in Ancestors(dir)
                    THEN addToGUTs(IF a \in Discovered(d) THEN d.dguts[a] ELSE << >>,
                                   combo, size)
                    ELSE d.dguts[a]]
    IN  [dguts    |-> dg,
         children |-> [a \in disc |->
                          SortPaths({c \in disc : Len(c) > 0 /\ Parent(c) = a})]]

RECURSIVE sumCounts(_, _)
sumCounts(guts, S) ==
    IF S = {} THEN 0
    ELSE LET c == CHOOSE x \in S : TRUE
         IN  guts[c].count + sumCounts(guts, S \ {c})

RECURSIVE sumSizes(_, _)
sumSizes(guts, S) ==
    IF S = {} THEN 0
    ELSE LET c == CHOOSE x \in S : TRUE
         IN  guts[c].size + sumSizes(guts, S \ {c})

\* DB.DirInfo: read number n + 1 of the call; it fails if failAt names it
dbDirInfo(d, dir, filter, n, failAt) ==
    IF failAt # 0 /\ n + 1 = failAt
    THEN [c |-> 0, s |-> 0, err |-> ErrStorageIO]
    ELSE IF dir \notin Discovered(d)
    THEN [c |-> 0, s |-> 0, err |-> ErrNotFound]
    ELSE LET m == {c \in DOMAIN d.dguts[dir] : matches(c, filter)}
         IN  [c |-> sumCounts(d.dguts[dir], m),
              s |-> sumSizes(d.dguts[dir], m),
              err |-> NilErr]

\* DB.Children
dbChildren(d, dir) ==
    IF dir \in DOMAIN d.children THEN d.children[dir] ELSE << >>

(***************************************************************************)
(* The Tree query engine.                                                  *)
(***************************************************************************)
\* Less with the comparison turned round
LessAscending(a, b) == a.Size < b.Size

\* DCSs.Less
Less(a, b) == a.Size > b.Size

\* sort.Sort(dcss): insertion of x into the sorted prefix, moving it left
\* while Less(x, element on its left)
RECURSIVE insertSorted(_, _)
insertSorted(s, x) ==
    IF s = << >> THEN <<x>>
    ELSE IF Less(x, s[Len(s)])
         THEN Append(insertSorted(SubSeq(s, 1, Len(s) - 1), x), s[Len(s)])
         ELSE Append(s, x)

RECURSIVE sortDCSs(_)
sortDCSs(s) ==
    IF s = << >> THEN << >>
    ELSE insertSorted(sortDCSs(SubSeq(s, 1, Len(s) - 1)), s[Len(s)])

\* IsSameAsChild without the comparison of the counts
IsOnlyChild(di) == Len(di.Children) = 1

\* DirInfo.IsSameAsChild
IsSameAsChild(di) ==
    Len(di.Children) = 1 /\ di.Children[1].Count = di.Current.Count

\* the result of getDirCountSizeInfo with the count and the size exchanged
dcsResultSwapped(dir, r, n) ==
    IF r.err # NilErr
    THEN [dcs |-> Nil, err |-> r.err, n |-> n + 1]
    ELSE [dcs |-> [Dir |-> dir, Count |-> r.s, Size |-> r.c],
          err |-> NilErr, n |-> n + 1]

\* the result of getDirCountSizeInfo for the answer r of the store
dcsResult(dir, r, n) ==
    IF r.err # NilErr
    THEN [dcs |-> Nil, err |-> r.err, n |-> n + 1]
    ELSE [dcs |-> [Dir |-> dir, Count |-> r.c, Size |-> r.s],
          err |-> NilErr, n |-> n + 1]

\* the result of getDirCountSizeInfo taking a failed lookup for an empty directory
dcsResultNoErr(dir, r, n) ==
    [dcs |-> [Dir |-> dir, Count |-> r.c, Size |-> r.s], err |-> NilErr, n |-> n + 1]

\* getDirCountSizeInfo without its error return
getDirCountSizeInfoNoErr(d, dir, filter, n, failAt) ==
    dcsResultNoErr(dir, dbDirInfo(d, dir, filter, n, failAt), n)

\* Tree.getDirCountSizeInfo
getDirCountSizeInfo(d, dir, filter, n, failAt) ==
    dcsResult(dir, dbDirInfo(d, dir, filter, n, failAt), n)

\* the test of addChildInfo keeping children without files too
hasFilesOrNone(dcs) == dcs.Count >= 0

\* the test of addChildInfo that keeps a child
hasFiles(dcs) == dcs.Count > 0

\* the loop body with Current sharing its storage with the child last looked up
addChildAliased(di, r) ==
    IF hasFiles(r.dcs)
    THEN [Current |-> r.dcs, Children |-> Append(di.Children, r.dcs)]
    ELSE di

\* the loop body appending every child twice
addChildTwice(di, r) ==
    IF hasFiles(r.dcs)
    THEN [di EXCEPT !.Children = Append(Append(@, r.dcs), r.dcs)]
    ELSE di

\* the body of addChildInfo's loop, for the result r of the child's lookup
addChild(di, r) ==
    IF hasFiles(r.dcs) THEN [di EXCEPT !.Children = Append(@, r.dcs)] ELSE di

RECURSIVE addChildInfo(_, _, _, _, _, _)

\* addChildInfo's loop after the lookup of the first of children returned r
addChildInfoStep(d, di, children, filter, failAt, r) ==
    IF r.err # NilErr
    THEN [di |-> di, err |-> r.err, n |-> r.n]
    ELSE addChildInfo(d, addChild(di, r), Tail(children), filter, r.n, failAt)

\* Tree.addChildInfo
addChildInfo(d, di, children, filter, n, failAt) ==
    IF children = << >> THEN [di |-> di, err |-> NilErr, n |-> n]
    ELSE addChildInfoStep(d, di, children, filter, failAt,
             getDirCountSizeInfo(d, Head(children), filter, n, failAt))

\* Tree.DirInfo after its own lookup returned r
DirInfoStep(d, filter, failAt, r) ==
    IF r.err # NilErr
    THEN [di |-> Nil, err |-> r.err, n |-> r.n]
    ELSE addChildInfo(d, [Current |-> r.dcs, Children |-> << >>],
                      dbChildren(d, r.dcs.Dir), filter, r.n, failAt)

\* Tree.DirInfo
DirInfo(d, dir, filter, n, failAt) ==
    DirInfoStep(d, filter, failAt, getDirCountSizeInfo(d, dir, filter, n, failAt))

\* the errors of a set that are errors
Errs(S) == S \ {NilErr}

\* the loop of where0 asking for the directory it already has
collapseTargetSelf(di) == di.Current.Dir

\* the directory where0's loop asks DirInfo for next
collapseTarget(di) == di.Children[1].Dir

RECURSIVE where0Loop(_, _, _, _, _, _)

\* the assignment di, _ = t.DirInfo(...) of where0's loop: r is what DirInfo
\* returned, its error is ignored (ign collects the ignored errors)
where0LoopStep(d, filter, failAt, ign, r) ==
    where0Loop(d, r.di, filter, r.n, failAt, ign \cup Errs({r.err}))

\* the loop of Tree.where0.  Calling IsSameAsChild on a nil *DirInfo panics.
where0Loop(d, di, filter, n, failAt, ign) ==
    IF di = Nil
    THEN [di |-> Nil, err |-> NilErr, n |-> n, ignored |-> ign, panic |-> TRUE]
    ELSE IF IsSameAsChild(di)
    THEN where0LoopStep(d, filter, failAt, ign,
                        DirInfo(d, collapseTarget(di), filter, n, failAt))
    ELSE [di |-> di, err |-> NilErr, n |-> n, ignored |-> ign, panic |-> FALSE]

\* Tree.where0 after its first DirInfo call returned r
where0Step(d, filter, failAt, r) ==
    IF r.err # NilErr
    THEN [di |-> Nil, err |-> r.err, n |-> r.n, ignored |-> {}, panic |-> FALSE]
    ELSE where0Loop(d, r.di, filter, r.n, failAt, {})

\* Tree.where0
where0(d, dir, filter, n, failAt) ==
    where0Step(d, filter, failAt, DirInfo(d, dir, filter, n, failAt))

\* the frontier loop asking for the child itself, not collapsed
whereChildNoCollapse(d, dcs, filter, n, failAt) ==
    [ignored |-> {}, panic |-> FALSE] @@ DirInfo(d, dcs.Dir, filter, n, failAt)

\* the frontier loop asking for the child's path with a trailing separator,
\* a path (with the empty last component 0) that is not the store's
whereChildSlash(d, dcs, filter, n, failAt) ==
    where0(d, dcs.Dir \o <<0>>, filter, n, failAt)

\* the call Where's frontier loop makes for the child dcs
whereChild(d, dcs, filter, n, failAt) == where0(d, dcs.Dir, filter, n, failAt)

\* the frontier loop keeping the children of the last child only
appendChildOverwrite(st, diChild) ==
    [st EXCEPT !.dcss = Append(@, diChild.Current),
               !.theseChildren = diChild.Children]

\* the two appends of Where's frontier loop, for the child's result diChild
appendChild(st, diChild) ==
    [st EXCEPT !.dcss = Append(@, diChild.Current),
               !.theseChildren = @ \o diChild.Children]

\* the loop state st once where0 returned w for a child: w's error is ignored
afterChild(st, w) ==
    [st EXCEPT !.n = w.n, !.ignored = @ \cup w.ignored \cup Errs({w.err})]

RECURSIVE expandChildren(_, _, _, _, _)

\* the body of Where's frontier loop after where0 returned w for the first of
\* children.  Reading Current of a nil diChild panics.
expandChildrenStep(d, children, filter, failAt, st, w) ==
    IF w.panic \/ w.di = Nil
    THEN [afterChild(st, w) EXCEPT !.panic = TRUE]
    ELSE expandChildren(d, Tail(children), filter, failAt,
                        appendChild(afterChild(st, w), w.di))

\* the inner loop of Tree.Where over the frontier; st is the loop's state
expandChildren(d, children, filter, failAt, st) ==
    IF children = << >> \/ st.panic THEN st
    ELSE expandChildrenStep(d, children, filter, failAt, st,
             whereChild(d, Head(children), filter, st.n, failAt))

\* the depth loop running once more
depthLoopCondInclusive(i, depth) == i <= depth

\* the condition of Where's depth loop
depthLoopCond(i, depth) == i < depth

RECURSIVE expandDepth(_, _, _, _, _, _, _)

\* the end of a round of the depth loop: children = theseChildren
expandDepthStep(d, i, depth, filter, failAt, r) ==
    expandDepth(d, i + 1, depth, r.theseChildren, filter, failAt, r)

\* the outer loop of Tree.Where
expandDepth(d, i, depth, children, filter, failAt, st) ==
    IF st.panic \/ ~depthLoopCond(i, depth)
    THEN [dcss |-> st.dcss, children |-> children, n |-> st.n,
          ignored |-> st.ignored, panic |-> st.panic]
    ELSE expandDepthStep(d, i, depth, filter, failAt,
             expandChildren(d, children, filter, failAt,
                            [st EXCEPT !.theseChildren = << >>]))

\* what Where returns when its loops end in the state r
whereResult(r) ==
    IF r.panic
    THEN [dcss |-> << >>, err |-> NilErr, children |-> << >>,
          n |-> r.n, ignored |-> r.ignored, panic |-> TRUE]
    ELSE [dcss |-> sortDCSs(r.dcss), err |-> NilErr,
          children |-> r.children, n |-> r.n,
          ignored |-> r.ignored, panic |-> FALSE]

\* Tree.Where after its where0 call returned w
WhereStep(d, filter, depth, failAt, w) ==
    IF w.panic
    THEN [dcss |-> << >>, err |-> NilErr, children |-> << >>, n |-> w.n,
          ignored |-> w.ignored, panic |-> TRUE]
    ELSE IF w.err # NilErr
    THEN [dcss |-> << >>, err |-> w.err, children |-> << >>, n |-> w.n,
          ignored |-> {}, panic |-> FALSE]
    ELSE whereResult(expandDepth(d, 0, depth, w.di.Children, filter, failAt,
                         [dcss |-> <<w.di.Current>>, theseChildren |-> << >>,
                          n |-> w.n, ignored |-> w.ignored, panic |-> FALSE]))

\* Tree.Where.  children is the frontier left when the loop ends.
Where(d, dir, filter, depth, failAt) ==
    WhereStep(d, filter, depth, failAt, where0(d, dir, filter, 0, failAt))

(***************************************************************************)
(* The state machine: a build consumes observations and publishes the      *)
(* store; queries then run against the opened store.                       *)
(***************************************************************************)
NoCall == [op |-> "none"]

\* a walk command that has not started
NoWalk == [pc |-> "init"]

\* the calls of multi that may run at the same time
MultiCalls == {1, 2}

\* a multi command that has not started
NotCalled == [pc |-> "init"]

\* the goroutines that query one Tree concurrently
Callers == {1, 2}

\* a caller with no call in progress
Idle == [pc |-> "idle"]

\* the totals of the files directly in each directory after one more
\* observation of a file in dir
addOwn(o, dir, combo, size) ==
    [a \in DOMAIN o \cup {dir} |->
        IF a = dir
        THEN addToGUTs(IF dir \in DOMAIN o THEN o[dir] ELSE << >>, combo, size)
        ELSE o[a]]

Init ==
    /\ phase = "build"
    /\ nobs = 0
    /\ db = EmptyDB
    /\ call = NoCall
    /\ own = << >>
    /\ callers = [p \in Callers |-> Idle]
    /\ wk = NoWalk
    /\ queue = {}
    /\ mc = [c \in MultiCalls |-> NotCalled]
    /\ uniq = 0

\* the builder consumes one observation
Observe(max) ==
    /\ phase = "build"
    /\ nobs < max
    /\ \E dir \in DirUniverse, combo \in Combinations, size \in 0..MaxFileSize :
          /\ db' = addObservation(db, dir, combo, size)
          /\ own' = addOwn(own, dir, combo, size)
    /\ nobs' = nobs + 1
    /\ UNCHANGED <<phase, call>>
    /\ UNCHANGED others

AddObservation == Observe(MaxObs)

AddObservationIO == Observe(MaxObsIO)

\* NewTree: the published store is opened for queries
NewTree ==
    /\ phase = "build"
    /\ phase' = "open"
    /\ UNCHANGED <<nobs, db, call, own>>
    /\ UNCHANGED others

\* what the caller of DirInfo holds: its arguments and the result r
dirInfoCall(dir, filter, failAt, r) ==
    [op |-> "DirInfo", dir |-> dir, filter |-> filter, failAt |-> failAt,
     di |-> r.di, err |-> r.err, reads |-> r.n]

DoDirInfo(dir, filter, failAt) ==
    /\ phase = "open"
    /\ call = NoCall
    /\ call' = dirInfoCall(dir, filter, failAt, DirInfo(db, dir, filter, 0, failAt))
    /\ UNCHANGED <<phase, nobs, db, own>>
    /\ UNCHANGED others

\* what the caller of Where holds: its arguments and the result r
whereCall(dir, filter, depth, failAt, r) ==
    [op |-> "Where", dir |-> dir, filter |-> filter, depth |-> depth,
     failAt |-> failAt, dcss |-> r.dcss, err |-> r.err, children |-> r.children,
     reads |-> r.n, ignored |-> r.ignored, panic |-> r.panic]

DoWhere(dir, filter, depth, failAt) ==
    /\ phase = "open"
    /\ call = NoCall
    /\ call' = whereCall(dir, filter, depth, failAt,
                         Where(db, dir, filter, depth, failAt))
    /\ UNCHANGED <<phase, nobs, db, own>>
    /\ UNCHANGED others

\* queries against a store whose reads succeed
DirInfoCall ==
    \E dir \in DirUniverse, filter \in Filters : DoDirInfo(dir, filter, 0)

WhereCall ==
    \E dir \in DirUniverse, filter \in Filters, depth \in 0..MaxDepth :
        DoWhere(dir, filter, depth, 0)

\* a query against a store one of whose reads may fail
WhereCallIO ==
    \E dir \in DirUniverse, filter \in Filters, depth \in 0..MaxDepth,
       failAt \in 0..MaxFailAt :
        DoWhere(dir, filter, depth, failAt)

\* the caller takes the result of its query; the Tree keeps nothing of it
Return ==
    /\ call # NoCall
    /\ call' = NoCall
    /\ UNCHANGED <<phase, nobs, db, own>>
    /\ UNCHANGED others

Next == AddObservation \/ NewTree \/ DirInfoCall \/ WhereCall \/ Return

Spec == Init /\ [][Next]_vars

NextIO == AddObservationIO \/ NewTree \/ WhereCallIO \/ Return

SpecIO == Init /\ [][NextIO]_vars

(***************************************************************************)
(* The worked examples: the tree /a/b/c/d/{1,2}, /a/b/e/f/g.  The name     *)
(* components are numbered in their sorting order: "1" is 1, "2" is 2,     *)
(* "a" to "g" are 11 to 17 and "nonexistent" is 18.                        *)
(***************************************************************************)
dirA == <<11>>
dirAB == <<11, 12>>
dirABC == <<11, 12, 13>>
dirABCD == <<11, 12, 13, 14>>
dirABCD1 == <<11, 12, 13, 14, 1>>
dirABCD2 == <<11, 12, 13, 14, 2>>
dirABE == <<11, 12, 15>>
dirABEF == <<11, 12, 15, 16>>
dirABEFG == <<11, 12, 15, 16, 17>>
dirNonexistent == <<18>>

\* the directories the examples' queries are made for
ExampleDirs == Ancestors(dirABCD1) \cup Ancestors(dirABCD2)
                \cup Ancestors(dirABEFG) \cup {dirNonexistent}

\* the filter naming one user
OfUser1 == [GIDs |-> {}, UIDs |-> {1}, FTs |-> {}]

ExampleFilters == {MatchAll, OfUser1}

\* one observation of a file of user uid and of size bytes in dir
obs(dir, uid, size) ==
    [dir |-> dir, combo |-> [gid |-> 1, uid |-> uid, ft |-> 1], size |-> size]

\* the observation stream of scenario A: f1 to f6
ScenarioA ==
    <<obs(dirABCD, 1, 10), obs(dirABCD1, 1, 5), obs(dirABCD2, 1, 20),
      obs(dirABCD2, 1, 8), obs(dirABEFG, 1, 3), obs(dirABEFG, 1, 4)>>

\* the stream of the example in Where's documentation: seven files of user 1
\* (2 in /a/b/c/d, 1 in /a/b/c/d/1, 2 in /a/b/c/d/2, 2 in /a/b/e/f/g) among
\* files of user 2
DocExample ==
    <<obs(dirA, 2, 9), obs(dirABCD, 1, 1), obs(dirABCD, 1, 1),
      obs(dirABCD1, 1, 1), obs(dirABCD1, 2, 9), obs(dirABCD2, 1, 1),
      obs(dirABCD2, 1, 1), obs(dirABEF, 2, 9), obs(dirABEFG, 1, 1),
      obs(dirABEFG, 1, 1)>>

\* the builder consumes the next observation of stream
ObserveStream(stream) ==
    /\ phase = "build"
    /\ nobs < Len(stream)
    /\ db' = addObservation(db, stream[nobs + 1].dir, stream[nobs + 1].combo,
                            stream[nobs + 1].size)
    /\ own' = addOwn(own, stream[nobs + 1].dir, stream[nobs + 1].combo,
                     stream[nobs + 1].size)
    /\ nobs' = nobs + 1
    /\ UNCHANGED <<phase, call>>
    /\ UNCHANGED others

ObserveScenarioA == ObserveStream(ScenarioA)

ObserveDocExample == ObserveStream(DocExample)

DirInfoCallExample ==
    \E dir \in ExampleDirs, filter \in ExampleFilters : DoDirInfo(dir, filter, 0)

WhereCallExample ==
    \E dir \in ExampleDirs, filter \in ExampleFilters, depth \in 0..MaxDepth :
        DoWhere(dir, filter, depth, 0)

NextA ==
    ObserveScenarioA \/ NewTree \/ DirInfoCallExample \/ WhereCallExample \/ Return

SpecA == Init /\ [][NextA]_vars

NextDoc ==
    ObserveDocExample \/ NewTree \/ DirInfoCallExample \/ WhereCallExample \/ Return

SpecDoc == Init /\ [][NextDoc]_vars

(***************************************************************************)
(* Concurrent callers.  A Tree holds nothing but its store (lines 31-33);  *)
(* every call of Where keeps dcss, children, theseChildren, i and di in    *)
(* local variables.  Here a call of Where runs one store-reading step at a *)
(* time, so that the steps of several callers interleave.  iters and       *)
(* visited are history: the iterations of the where0 loop in progress and  *)
(* the directories it has asked DirInfo for.                               *)
(***************************************************************************)
\* the local variables the steps of caller p work on
locals(cs, p) == cs[p]

\* theseChildren kept in one place for all callers, the first caller's
theseChildrenShared(cs, p) ==
    IF cs[1].pc = "idle" THEN cs[p].theseChildren ELSE cs[1].theseChildren

\* the theseChildren the frontier loop of caller p appends to: a variable
\* declared in the body of Where's depth loop
theseChildrenOf(cs, p) == cs[p].theseChildren

\* the local variables of a call of Where that is about to start
newCall(d, dir, filter, depth) ==
    [pc |-> "idle", op |-> "Where", dir |-> dir, filter |-> filter,
     depth |-> depth, store |-> d, ctx |-> "start", start |-> dir, di |-> Nil,
     dcss |-> << >>, children |-> << >>, rest |-> << >>,
     theseChildren |-> << >>, i |-> 0, iters |-> 0, visited |-> << >>,
     err |-> NilErr]

\* where0 after its first DirInfo call, for dir, returned r.  Called for the
\* starting directory its error is Where's; called for a child its error is
\* ignored and reading Current of the nil diChild panics.
beginWhere0(c, ctx, dir, r) ==
    IF r.err # NilErr
    THEN IF ctx = "start"
         THEN [c EXCEPT !.pc = "done", !.err = r.err]
         ELSE [c EXCEPT !.pc = "panic"]
    ELSE [c EXCEPT !.pc = "collapse", !.ctx = ctx, !.start = dir, !.di = r.di,
                   !.iters = 0, !.visited = <<dir>>]

\* one iteration of where0's loop: r is what DirInfo returned for target
collapseStep(c, target, r) ==
    IF r.di = Nil
    THEN [c EXCEPT !.pc = "panic"]
    ELSE [c EXCEPT !.di = r.di, !.iters = @ + 1, !.visited = Append(@, target)]

\* where0 returns c.di: to Where's first lines, or to its frontier loop
where0Returned(c) ==
    IF c.ctx = "start"
    THEN [c EXCEPT !.pc = "depth", !.dcss = <<c.di.Current>>,
                   !.children = c.di.Children, !.i = 0]
    ELSE [appendChild(c, c.di) EXCEPT !.pc = "children"]

\* the test of Where's depth loop: another round, or sort and return
depthLoop(c) ==
    IF depthLoopCond(c.i, c.depth)
    THEN [c EXCEPT !.pc = "children", !.theseChildren = << >>, !.rest = c.children]
    ELSE [c EXCEPT !.pc = "done", !.dcss = sortDCSs(c.dcss)]

\* a caller starts Where(dir, filter, depth)
CallWhere(p, dir, filter, depth) ==
    /\ phase = "open"
    /\ locals(callers, p).pc = "idle"
    /\ callers' = [callers EXCEPT ![p] =
                      beginWhere0(newCall(db, dir, filter, depth), "start", dir,
                                  DirInfo(db, dir, filter, 0, 0))]
    /\ UNCHANGED <<phase, nobs, db, call, own, cmdVars>>

\* a caller runs DirInfo(dir, filter)
dirInfoDone(c, r) == [c EXCEPT !.op = "DirInfo", !.pc = "done", !.di = r.di, !.err = r.err]

CallDirInfo(p, dir, filter) ==
    /\ phase = "open"
    /\ locals(callers, p).pc = "idle"
    /\ callers' = [callers EXCEPT ![p] =
                      dirInfoDone(newCall(db, dir, filter, 0),
                                  DirInfo(db, dir, filter, 0, 0))]
    /\ UNCHANGED <<phase, nobs, db, call, own, cmdVars>>

\* where0's loop runs once more
CollapseStep(p) ==
    /\ locals(callers, p).pc = "collapse"
    /\ IsSameAsChild(locals(callers, p).di)
    /\ callers' = [callers EXCEPT ![p] =
                      collapseStep(locals(callers, p),
                                   collapseTarget(locals(callers, p).di),
                                   DirInfo(db, collapseTarget(locals(callers, p).di),
                                           locals(callers, p).filter, 0, 0))]
    /\ UNCHANGED <<phase, nobs, db, call, own, cmdVars>>

\* where0's loop ends
CollapseDone(p) ==
    /\ locals(callers, p).pc = "collapse"
    /\ ~IsSameAsChild(locals(callers, p).di)
    /\ callers' = [callers EXCEPT ![p] =
                      where0Returned([locals(callers, p) EXCEPT
                          !.theseChildren = theseChildrenOf(callers, p)])]
    /\ UNCHANGED <<phase, nobs, db, call, own, cmdVars>>

DepthLoop(p) ==
    /\ locals(callers, p).pc = "depth"
    /\ callers' = [callers EXCEPT ![p] = depthLoop(locals(callers, p))]
    /\ UNCHANGED <<phase, nobs, db, call, own, cmdVars>>

\* the frontier loop: where0 starts for the next child, or the round ends
childrenLoop(c, d) ==
    IF c.rest = << >>
    THEN [c EXCEPT !.pc = "depth", !.children = c.theseChildren, !.i = @ + 1]
    ELSE beginWhere0([c EXCEPT !.rest = Tail(@)], "child", Head(c.rest).Dir,
                     DirInfo(d, Head(c.rest).Dir, c.filter, 0, 0))

ChildrenLoop(p) ==
    /\ locals(callers, p).pc = "children"
    /\ callers' = [callers EXCEPT ![p] = childrenLoop(locals(callers, p), db)]
    /\ UNCHANGED <<phase, nobs, db, call, own, cmdVars>>

\* the caller takes its result
ReturnCaller(p) ==
    /\ locals(callers, p).pc = "done"
    /\ callers' = [callers EXCEPT ![p] = Idle]
    /\ UNCHANGED <<phase, nobs, db, call, own, cmdVars>>

\* the steps of a call in progress
WhereSteps(p) ==
    CollapseStep(p) \/ CollapseDone(p) \/ DepthLoop(p) \/ ChildrenLoop(p)
        \/ ReturnCaller(p)

\* observations consumed by a build whose store is queried step by step
MaxObsSteps == 2

AddObservationSteps == Observe(MaxObsSteps)

\* one caller, any store
NextSteps ==
    \/ AddObservationSteps
    \/ NewTree
    \/ \E dir \in DirUniverse, filter \in Filters, depth \in 0..MaxDepth :
          CallWhere(1, dir, filter, depth)
    \/ WhereSteps(1)

SpecSteps == Init /\ [][NextSteps]_vars

\* the directories the concurrent callers ask for
ConcDirs == {<< >>, dirABC}

\* several callers, the store of the documented example
NextConc ==
    \/ ObserveDocExample
    \/ NewTree
    \/ \E p \in Callers :
          \/ \E dir \in ConcDirs, filter \in ExampleFilters, depth \in 0..MaxDepth :
                CallWhere(p, dir, filter, depth)
          \/ \E dir \in ConcDirs, filter \in ExampleFilters :
                CallDirInfo(p, dir, filter)
          \/ WhereSteps(p)

SpecConc == Init /\ [][NextConc]_vars

(***************************************************************************)
(* The walk command (cmd/walk.go): the paths of the tree are written to n  *)
(* output files, then one stat job per output file is added to the queue.  *)
(* A path is a number; the walk delivers the entries of the tree in any    *)
(* order (Unsorted: true), each once.                                      *)
(***************************************************************************)
\* the entries a walked tree can hold
MaxPaths == 3
\* walk is run with -n 0..MaxFiles
MaxFiles == 3

Paths == 1..MaxPaths

\* the values of --dependency_group
DepGroupNames == {"dep1", "dep2"}

jobRetries == 3

\* the job as it sits in the queue, not yet started
pending(job) == [job |-> job, state |-> "pending"]

\* jq.Add: every job whose command the queue does not hold yet is inserted
jqAdd(q, jobs) ==
    q \cup {pending(jobs[j]) : j \in {k \in DOMAIN jobs :
                                          \A e \in q : e.job.Cmd # jobs[k].Cmd}}

\* the file createWalkOutputFile creates for num: out/walk.num
walkOutputFile(out, num) == [dir |-> out, name |-> <<"walk", num>>]

\* the names of the n files writeAllPathsToFiles creates in out
walkOutPaths(out, n) == [j \in 1..n |-> walkOutputFile(out, j - 1)]

\* writeAllPathsToFiles up to its call of walkDir, and walkDir's first lines
startWalk(n, depGroup) ==
    [pc |-> "walking", n |-> n, depGroup |-> depGroup, repGroup |-> "rep",
     outputDir |-> "out", outPaths |-> walkOutPaths("out", n),
     files |-> [j \in 1..n |-> << >>], i |-> 0, seen |-> << >>,
     submitted |-> << >>, returned |-> FALSE]

\* the callback's i++ with the wrap happening one file early
nextFileShort(i, max) == IF i + 1 >= max - 1 THEN 0 ELSE i + 1

\* the callback's i++; if i == max { i = 0 }
nextFile(i, max) == IF i + 1 = max THEN 0 ELSE i + 1

\* walkDir's callback for path; ok tells whether WriteString succeeded.
\* files[i] with no files is an index out of range
writePath(w, path, ok) ==
    IF w.n = 0 THEN [w EXCEPT !.pc = "panic"]
    ELSE IF ok
    THEN [w EXCEPT !.files[w.i + 1] = Append(@, path),
                   !.i = nextFile(w.i, w.n),
                   !.seen = Append(@, path)]
    ELSE [w EXCEPT !.pc = "died"]

\* the stat job with no dependency group
statJobNoDepGroup(path, depGroup, repGrp) ==
    [Cmd |-> [sub |-> "stat", arg |-> path], RepGroup |-> repGrp,
     ReqGroup |-> "wrstat-stat", DepGroups |-> << >>, Dependencies |-> << >>,
     Retries |-> jobRetries]

\* the job scheduleStatJobs makes for the output file path
statJob(path, depGroup, repGrp) ==
    [Cmd |-> [sub |-> "stat", arg |-> path], RepGroup |-> repGrp,
     ReqGroup |-> "wrstat-stat", DepGroups |-> <<depGroup>>,
     Dependencies |-> << >>, Retries |-> jobRetries]

\* the jobs of scheduleStatJobs
statJobs(outPaths, depGroup, repGrp) ==
    [j \in DOMAIN outPaths |-> statJob(outPaths[j], depGroup, repGrp)]

\* createWalkOutputFile dies, or the files are created and the walk begins
StartWalk ==
    /\ wk.pc = "init"
    /\ \E n \in 0..MaxFiles, depGroup \in DepGroupNames, created \in BOOLEAN :
          wk' = IF created \/ n = 0 THEN startWalk(n, depGroup)
                ELSE [startWalk(n, depGroup) EXCEPT !.pc = "died"]
    /\ UNCHANGED <<queue, mc, uniq, treeVars>>

\* the walk delivers one more entry of the tree to the callback
WalkPath ==
    /\ wk.pc = "walking"
    /\ \E path \in Paths \ Range(wk.seen), ok \in BOOLEAN :
          wk' = writePath(wk, path, ok)
    /\ UNCHANGED <<queue, mc, uniq, treeVars>>

\* godirwalk.Walk returns an error of its own: die
WalkFails ==
    /\ wk.pc = "walking"
    /\ wk' = [wk EXCEPT !.pc = "died"]
    /\ UNCHANGED <<queue, mc, uniq, treeVars>>

\* every entry of the tree (the directory itself at least) was delivered:
\* writeAllPathsToFiles returns outPaths, the files are closed
EndWalk ==
    /\ wk.pc = "walking"
    /\ wk.seen # << >>
    /\ wk' = [wk EXCEPT !.pc = "walked", !.returned = TRUE]
    /\ UNCHANGED <<queue, mc, uniq, treeVars>>

\* scheduleStatJobs called while the walk is still going on
walkStarted(w) == w.pc \in {"walking", "walked"}

\* walkDirAndScheduleStats: scheduleStatJobs is called with what
\* writeAllPathsToFiles returned
walkReturned(w) == w.pc = "walked"

\* scheduleStatJobs and addJobsToQueue; ok tells whether os.Getwd,
\* os.Executable and jq.Add succeeded
ScheduleStatJobs ==
    /\ walkReturned(wk)
    /\ \E ok \in BOOLEAN :
          IF ok
          THEN /\ wk' = [wk EXCEPT !.pc = "scheduled",
                                   !.submitted = statJobs(wk.outPaths, wk.depGroup,
                                                          wk.repGroup)]
               /\ queue' = jqAdd(queue, statJobs(wk.outPaths, wk.depGroup,
                                                 wk.repGroup))
          ELSE /\ wk' = [wk EXCEPT !.pc = "died"]
               /\ queue' = queue
    /\ UNCHANGED <<mc, uniq, treeVars>>

NextWalk == StartWalk \/ WalkPath \/ WalkFails \/ EndWalk \/ ScheduleStatJobs

SpecWalk == Init /\ [][NextWalk]_vars

(***************************************************************************)
(* The multi command (package cmd, multi): a walk job and a combine job    *)
(* per directory of interest, then a tidy job.  A file path is a sequence  *)
(* of components; a component is a name or a unique string.  The           *)
(* scheduler package (NewJob, UniqueString) and wr's queue are not part of *)
(* the sources at hand: NewJob is taken from its three calls, the queue    *)
(* starts a job once every job of the dep groups it depends on is          *)
(* complete.                                                               *)
(***************************************************************************)
\* directories of interest given to one call of multi
MaxDesired == 2
\* multi is run with --parallel_jobs MultiJobs
MultiJobs == 1

desiredToJobsMultiplier == 2

Name(s) == [name |-> s]

\* the k-th string scheduler.UniqueString hands out: no two are equal
UniqueString(k) == [unique |-> k]

\* the empty string given for a group
NoGroup == Name("")

\* --working_directory and --final_output
workDir == <<Name("work")>>

finalDir == <<Name("final")>>

\* the directories of interest: two of one basename, and one ending in ".."
DesiredPaths ==
    {<<Name("mnt"), Name("foo")>>, <<Name("home"), Name("foo")>>,
     <<Name("mnt"), Name("..")>>}

\* the argument lists of a call: one to MaxDesired different directories
ArgLists ==
    {args \in UNION {[1..k -> DesiredPaths] : k \in 1..MaxDesired} :
        \A j, k \in DOMAIN args : args[j] = args[k] => j = k}

\* the argument list of the call whose jobs the queue is seen to run
RunArgs == <<<<Name("mnt"), Name("foo")>>, <<Name("home"), Name("foo")>>>>

\* filepath.Base
Base(path) == IF path = << >> THEN Name("/") ELSE path[Len(path)]

\* filepath.Clean of an absolute path: acc is the cleaned part so far
RECURSIVE Clean(_, _)
Clean(parts, acc) ==
    IF parts = << >> THEN acc
    ELSE IF Head(parts) = Name("..")
    THEN Clean(Tail(parts), SubSeq(acc, 1, Len(acc) - 1))
    ELSE IF Head(parts) \in {Name("."), Name("/"), Name("")}
    THEN Clean(Tail(parts), acc)
    ELSE Clean(Tail(parts), Append(acc, Head(parts)))

\* filepath.Join
Join(parts) == Clean(parts, << >>)

\* repGrp: wrstat-cmd-basename-date-unique
repGrp(cmd, dir, unique) ==
    [cmd |-> cmd, base |-> Base(dir), date |-> "today", unique |-> unique]

\* Scheduler.NewJob(cmd, repGroup, reqGroup, depGroup, dep)
NewJob(cmd, repGroup, reqGroup, depGroup, dep) ==
    [Cmd |-> cmd, RepGroup |-> repGroup, ReqGroup |-> reqGroup,
     DepGroups |-> IF depGroup = NoGroup THEN << >> ELSE <<depGroup>>,
     Dependencies |-> IF dep = NoGroup THEN << >> ELSE <<dep>>]

\* the output directory without the directory's own unique string
outDirOfBase(outputRoot, path, thisUnique) == Join(outputRoot \o <<Base(path)>>)

\* the output directory scheduleWalkJobs gives the directory of interest path
outDirOf(outputRoot, path, thisUnique) ==
    Join(outputRoot \o <<Base(path), thisUnique>>)

\* jobs[i*2]: the walk job
walkJob(outDir, path, unique, thisUnique, n) ==
    NewJob([sub |-> "walk", d |-> thisUnique, o |-> outDir,
            i |-> repGrp("stat", path, unique), n |-> n, path |-> path],
           repGrp("walk", path, unique), "wrstat-walk", thisUnique, NoGroup)

\* jobs[i*2+1]: the combine job
combineJob(outDir, path, unique, thisUnique) ==
    NewJob([sub |-> "combine", dir |-> outDir],
           repGrp("combine", path, unique), "wrstat-stat", unique, thisUnique)

\* the tidy job depending on nothing
tidyJobNoDep(outputRoot, unique) ==
    NewJob([sub |-> "tidy", f |-> finalDir, d |-> "today", root |-> outputRoot],
           repGrp("tidy", finalDir, unique), "wrstat-tidy", NoGroup, NoGroup)

\* the job of scheduleTidyJob
tidyJob(outputRoot, unique) ==
    NewJob([sub |-> "tidy", f |-> finalDir, d |-> "today", root |-> outputRoot],
           repGrp("tidy", finalDir, unique), "wrstat-tidy", NoGroup, unique)

\* multiCmd.Run up to scheduleWalkJobs' loop
beginMulti(args, n, unique) ==
    [pc |-> "walkjobs", args |-> args, n |-> n, unique |-> unique,
     outputRoot |-> Join(workDir \o <<unique>>), i |-> 0,
     jobs |-> << >>, outDirs |-> << >>]

\* one round of scheduleWalkJobs' loop, for the directory m.args[m.i + 1]
walkJobPair(m, outDir, thisUnique) ==
    [m EXCEPT !.i = @ + 1,
              !.outDirs = Append(@, outDir),
              !.jobs = @ \o <<walkJob(outDir, m.args[m.i + 1], m.unique,
                                      thisUnique, m.n),
                              combineJob(outDir, m.args[m.i + 1], m.unique,
                                         thisUnique)>>]

\* a call of multi starts; made tells whether os.MkdirAll succeeded
BeginMulti(c, lists) ==
    /\ mc[c].pc = "init"
    /\ \E args \in lists, made \in BOOLEAN :
          mc' = [mc EXCEPT ![c] =
                    IF made THEN beginMulti(args, MultiJobs, UniqueString(uniq + 1))
                    ELSE [pc |-> "died"]]
    /\ uniq' = uniq + 1
    /\ UNCHANGED <<wk, queue, treeVars>>

WalkJobPair(c) ==
    /\ mc[c].pc = "walkjobs"
    /\ mc[c].i < Len(mc[c].args)
    /\ mc' = [mc EXCEPT ![c] =
                 walkJobPair(mc[c],
                             outDirOf(mc[c].outputRoot, mc[c].args[mc[c].i + 1],
                                      UniqueString(uniq + 1)),
                             UniqueString(uniq + 1))]
    /\ uniq' = uniq + 1
    /\ UNCHANGED <<wk, queue, treeVars>>

\* addJobsToQueue at the end of scheduleWalkJobs; ok tells whether jq.Add
\* succeeded
AddWalkJobs(c) ==
    /\ mc[c].pc = "walkjobs"
    /\ mc[c].i = Len(mc[c].args)
    /\ Len(mc[c].jobs) = desiredToJobsMultiplier * Len(mc[c].args)
    /\ \E ok \in BOOLEAN :
          IF ok
          THEN /\ mc' = [mc EXCEPT ![c].pc = "tidy"]
               /\ queue' = jqAdd(queue, mc[c].jobs)
          ELSE /\ mc' = [mc EXCEPT ![c].pc = "died"]
               /\ queue' = queue
    /\ UNCHANGED <<wk, uniq, treeVars>>

ScheduleTidyJob(c) ==
    /\ mc[c].pc = "tidy"
    /\ \E ok \in BOOLEAN :
          IF ok
          THEN /\ mc' = [mc EXCEPT ![c].pc = "done"]
               /\ queue' = jqAdd(queue, <<tidyJob(mc[c].outputRoot, mc[c].unique)>>)
          ELSE /\ mc' = [mc EXCEPT ![c].pc = "died"]
               /\ queue' = queue
    /\ UNCHANGED <<wk, uniq, treeVars>>

MultiSteps(c, lists) ==
    BeginMulti(c, lists) \/ WalkJobPair(c) \/ AddWalkJobs(c) \/ ScheduleTidyJob(c)

\* calls of multi running at the same time
NextMulti == \E c \in MultiCalls : MultiSteps(c, ArgLists)

SpecMulti == Init /\ [][NextMulti]_vars

\* the queue entry e in another state
inState(e, state) == [e EXCEPT !.state = state]

\* every job of the dep groups job depends on is complete
ready(job, q) ==
    \A e \in q :
        (\E g \in Range(e.job.DepGroups) : g \in Range(job.Dependencies))
            => e.state = "complete"

\* the queue starts a job
StartJob ==
    /\ \E e \in queue :
          /\ e.state = "pending"
          /\ ready(e.job, queue)
          /\ queue' = (queue \ {e}) \cup {inState(e, "running")}
    /\ UNCHANGED <<wk, mc, uniq, treeVars>>

\* a running walk job adds its stat jobs (scheduleStatJobs)
WalkJobAddsStats ==
    /\ \E e \in queue :
          /\ e.state = "running"
          /\ e.job.Cmd.sub = "walk"
          /\ queue' = jqAdd((queue \ {e}) \cup {inState(e, "scheduled")},
                            statJobs(walkOutPaths(e.job.Cmd.o, e.job.Cmd.n),
                                     e.job.Cmd.d, e.job.Cmd.i))
    /\ UNCHANGED <<wk, mc, uniq, treeVars>>

\* a job exits with success: a walk job after it added its stat jobs
FinishJob ==
    /\ \E e \in queue :
          /\ \/ e.state = "running" /\ e.job.Cmd.sub # "walk"
             \/ e.state = "scheduled"
          /\ queue' = (queue \ {e}) \cup {inState(e, "complete")}
    /\ UNCHANGED <<wk, mc, uniq, treeVars>>

\* a job fails for good
FailJob ==
    /\ \E e \in queue :
          /\ e.state \in {"running", "scheduled"}
          /\ queue' = (queue \ {e}) \cup {inState(e, "buried")}
    /\ UNCHANGED <<wk, mc, uniq, treeVars>>

\* one call of multi, and the queue working on its jobs
NextRun ==
    MultiSteps(1, {RunArgs}) \/ StartJob \/ WalkJobAddsStats \/ FinishJob \/ FailJob

SpecRun == Init /\ [][NextRun]_vars

(***************************************************************************)
(* What the store says, read without the Tree: the reference the query     *)
(* results are compared with.                                              *)
(***************************************************************************)
\* lookup(dir, filter) of the store, with no failing read
lookup(dir, filter) == dbDirInfo(db, dir, filter, 0, 0)

\* the DirCountSize the store holds for dir
refDCS(dir, filter) ==
    [Dir |-> dir, Count |-> lookup(dir, filter).c, Size |-> lookup(dir, filter).s]

\* the children of dir in the store's index with matching files
qualifying(dir, filter) ==
    {c \in Range(dbChildren(db, dir)) : lookup(c, filter).c > 0}

\* dir passes all its matching files on to its single qualifying child
passThrough(dir, filter) ==
    /\ Cardinality(qualifying(dir, filter)) = 1
    /\ \A c \in qualifying(dir, filter) : lookup(c, filter).c = lookup(dir, filter).c

\* to is reached from dir by following single equal-count children only
chainTo(dir, to, filter) ==
    /\ IsPrefix(dir, to)
    /\ \A k \in Len(dir)..(Len(to) - 1) :
          /\ passThrough(SubSeq(to, 1, k), filter)
          /\ qualifying(SubSeq(to, 1, k), filter) = {SubSeq(to, 1, k + 1)}

\* the first directory on dir's chain that is not a pass-through
collapsed(dir, filter) ==
    CHOOSE to \in DirUniverse : chainTo(dir, to, filter) /\ ~passThrough(to, filter)

\* a Where call that returned a result from a store whose reads succeeded
WhereOK == call.op = "Where" /\ call.failAt = 0 /\ call.err = NilErr /\ ~call.panic

\* a DirInfo call that returned a result from a store whose reads succeeded
DirInfoOK == call.op = "DirInfo" /\ call.failAt = 0 /\ call.err = NilErr

(***************************************************************************)
(* The claims.                                                             *)
(***************************************************************************)
\* C1: the sequence Where returns is ordered by Size, non-increasing: for all
\* positions i < j, result[i].Size >= result[j].Size.
C1_WhereSortedBySize ==
    WhereOK =>
        \A i, j \in 1..Len(call.dcss) : i < j => call.dcss[i].Size >= call.dcss[j].Size

\* a result of three entries whose children were visited smaller one first
C1_Witness ==
    /\ WhereOK
    /\ Len(call.dcss) = 3
    /\ call.dcss[2].Dir = <<2>>
    /\ call.dcss[3].Dir = <<1>>
    /\ call.dcss[2].Size > call.dcss[3].Size

\* C2: if dir has exactly one qualifying child, with a count equal to dir's,
\* Where at depth 0 does not return dir: it returns the first directory reached
\* by following such single equal-count children that is not itself one.
C2_Collapsing ==
    (WhereOK /\ call.depth = 0 /\ passThrough(call.dir, call.filter)) =>
        /\ call.dcss[1].Dir # call.dir
        /\ chainTo(call.dir, call.dcss[1].Dir, call.filter)
        /\ ~passThrough(call.dcss[1].Dir, call.filter)

\* "/" collapsed over two levels
C2_Witness ==
    /\ WhereOK
    /\ call.depth = 0
    /\ call.dir = << >>
    /\ passThrough(<< >>, call.filter)
    /\ Len(call.dcss[1].Dir) = 2

\* C3: at depth 0 Where returns exactly one entry, the Current of the collapsed
\* starting directory, and no child entry.
C3_DepthZeroOneEntry ==
    (WhereOK /\ call.depth = 0) =>
        call.dcss = <<refDCS(collapsed(call.dir, call.filter), call.filter)>>

\* a depth 0 call that collapsed "/" to "/1", which has a qualifying child
C3_Witness ==
    /\ WhereOK
    /\ call.depth = 0
    /\ Len(call.dcss) = 1
    /\ call.dir = << >>
    /\ call.dcss[1].Dir = <<1>>
    /\ qualifying(<<1>>, call.filter) # {}

\* C4: the Children of DirInfo are exactly the paths of the store's children
\* index for dir whose filtered count is > 0, each once and with its own
\* filtered count and size; none is anything but an immediate child.
C4_DirInfoChildren ==
    DirInfoOK =>
        LET kids == call.di.Children
        IN  /\ {kids[i].Dir : i \in DOMAIN kids} = qualifying(call.dir, call.filter)
            /\ \A i, j \in DOMAIN kids : kids[i].Dir = kids[j].Dir => i = j
            /\ \A i \in DOMAIN kids :
                  /\ kids[i] = refDCS(kids[i].Dir, call.filter)
                  /\ Len(kids[i].Dir) > 0
                  /\ Parent(kids[i].Dir) = call.dir

\* a DirInfo of a directory with two children, one of them without matching files
C4_Witness ==
    /\ DirInfoOK
    /\ Len(dbChildren(db, call.dir)) = 2
    /\ Len(call.di.Children) = 1
    /\ call.di.Current.Count > call.di.Children[1].Count

\* C5: DirInfo and Where on a directory never discovered by the build return
\* the error NotFound and no result, for every filter and depth.
C5_NotFound ==
    (call.op \in {"DirInfo", "Where"} /\ call.failAt = 0
        /\ call.dir \notin Discovered(db)) =>
        /\ call.err = ErrNotFound
        /\ call.op = "DirInfo" => call.di = Nil
        /\ call.op = "Where" => (call.dcss = << >> /\ ~call.panic)

\* a Where at depth 2 of an undiscovered directory whose parent is discovered
C5_Witness ==
    /\ call.op = "Where"
    /\ call.depth = 2
    /\ call.dir \notin Discovered(db)
    /\ Len(call.dir) > 0
    /\ Parent(call.dir) \in Discovered(db)
    /\ call.err = ErrNotFound

\* C8: for a known directory and a filter matching none of the files beneath
\* it, Where succeeds at every depth with the single entry (dir, 0, 0): the
\* root is not excluded, not collapsed, and no child entry is produced.
C8_ZeroMatchRoot ==
    (call.op = "Where" /\ call.failAt = 0 /\ call.dir \in Discovered(db)
        /\ lookup(call.dir, call.filter).c = 0) =>
        /\ call.err = NilErr
        /\ ~call.panic
        /\ call.dcss = <<[Dir |-> call.dir, Count |-> 0, Size |-> 0]>>

\* a depth 2 query of a directory with two children, none with matching files
C8_Witness ==
    /\ call.op = "Where"
    /\ call.depth = 2
    /\ call.filter # MatchAll
    /\ Len(dbChildren(db, call.dir)) = 2
    /\ lookup(call.dir, MatchAll).c = 3
    /\ call.dcss = <<[Dir |-> call.dir, Count |-> 0, Size |-> 0]>>

\* the multiset of the entries of a result
BagOfSeq(s) == [x \in Range(s) |-> Cardinality({i \in DOMAIN s : s[i] = x})]

\* the frontier left after j expansion rounds, by the store
RECURSIVE frontierAfter(_, _, _)
frontierAfter(dir, filter, j) ==
    IF j = 0 THEN qualifying(collapsed(dir, filter), filter)
    ELSE UNION {qualifying(collapsed(c, filter), filter) :
                    c \in frontierAfter(dir, filter, j - 1)}

\* C9: for k >= 1 the entries of Where(dir, filter, k) are those of
\* Where(dir, filter, k-1) plus exactly the collapsed Current of each directory
\* of the frontier left after k-1 rounds; with an empty frontier the result is
\* that of depth k-1.
C9_DepthMonotonic ==
    (WhereOK /\ call.depth >= 1) =>
        LET prev == Where(db, call.dir, call.filter, call.depth - 1, 0)
            fr   == frontierAfter(call.dir, call.filter, call.depth - 1)
            more == {refDCS(collapsed(c, call.filter), call.filter) : c \in fr}
        IN  /\ prev.err = NilErr /\ ~prev.panic
            /\ Cardinality(more) = Cardinality(fr)
            /\ BagOfSeq(call.dcss) = BagOfSeq(prev.dcss) (+) SetToBag(more)
            /\ fr = {} => call.dcss = prev.dcss

\* a depth 2 result with an entry that depth 1 does not have
C9_Witness ==
    /\ WhereOK
    /\ call.depth = 2
    /\ frontierAfter(call.dir, call.filter, 1) # {}
    /\ Len(call.dcss) > Len(Where(db, call.dir, call.filter, 1, 0).dcss)

\* the sum of the bags of the results of Where at depth k for the directories S
RECURSIVE whereBags(_, _, _)
whereBags(S, filter, k) ==
    IF S = {} THEN EmptyBag
    ELSE LET c == CHOOSE x \in S : TRUE
         IN  BagOfSeq(Where(db, c, filter, k, 0).dcss) (+) whereBags(S \ {c}, filter, k)

\* C10: for k >= 1 the entries of Where(dir, filter, k) are the entry of
\* Where(dir, filter, 0) together with the entries of Where(c, filter, k-1) of
\* every qualifying child c of the collapsed starting directory.
C10_RecursiveWhere ==
    (WhereOK /\ call.depth >= 1) =>
        BagOfSeq(call.dcss) =
            BagOfSeq(Where(db, call.dir, call.filter, 0, 0).dcss)
            (+) whereBags(qualifying(collapsed(call.dir, call.filter), call.filter),
                          call.filter, call.depth - 1)

\* a depth 2 query from "/", a branch point, reaching "/1/1"
C10_Witness ==
    /\ WhereOK
    /\ call.depth = 2
    /\ call.dir = << >>
    /\ Cardinality(qualifying(collapsed(<< >>, call.filter), call.filter)) = 2
    /\ \E i \in DOMAIN call.dcss : Len(call.dcss[i].Dir) = 2

(***************************************************************************)
(* Claims about failing store reads, under SpecIO.                         *)
(***************************************************************************)
\* one of the store reads the call made failed
readFailed == call.failAt \in 1..call.reads

\* the store's children index lists discovered directories only
indexDiscovered ==
    \A dir \in DOMAIN db.children : Range(db.children[dir]) \subseteq Discovered(db)

\* what the DirInfo call Where starts with returned
initialErr == DirInfo(db, call.dir, call.filter, 0, call.failAt).err

C7_ReadErrorReturned ==
    (call.op = "Where" /\ readFailed) => (call.err = ErrStorageIO /\ ~call.panic)

\* the failed read of a collapse step is lost: a result and no error
C7_Swallowed ==
    /\ call.op = "Where"
    /\ readFailed
    /\ call.err = NilErr
    /\ ~call.panic
    /\ ErrStorageIO \in call.ignored

\* a DirInfo call for dir and filter against the store of a whole stream
dirInfoOf(stream, dir, filter) ==
    /\ nobs = Len(stream)
    /\ DirInfoOK
    /\ call.dir = dir
    /\ call.filter = filter

\* a Where call for dir, filter and depth against the store of a whole stream
whereOf(stream, dir, filter, depth) ==
    /\ nobs = Len(stream)
    /\ WhereOK
    /\ call.dir = dir
    /\ call.filter = filter
    /\ call.depth = depth

\* the (directory, count) pairs of a result
dirCounts(dcss) == {<<dcss[i].Dir, dcss[i].Count>> : i \in DOMAIN dcss}

\* C11 as stated: on the store of scenario A, DirInfo("/a/b", match-all)
\* returns Current = (6 files, 50 bytes) and the children /a/b/c = (6 files,
\* 43 bytes) and /a/b/e = (2 files, 7 bytes).
C11_ScenarioAAsStated ==
    dirInfoOf(ScenarioA, dirAB, MatchAll) =>
        /\ call.di.Current = [Dir |-> dirAB, Count |-> 6, Size |-> 50]
        /\ call.di.Children = <<[Dir |-> dirABC, Count |-> 6, Size |-> 43],
                                [Dir |-> dirABE, Count |-> 2, Size |-> 7]>>

\* C11: on the store of scenario A, DirInfo("/a/b", match-all) returns
\* Current = (6 files, 50 bytes) and the children /a/b/c = (4 files, 43 bytes)
\* and /a/b/e = (2 files, 7 bytes).
C11_ScenarioA ==
    dirInfoOf(ScenarioA, dirAB, MatchAll) =>
        /\ call.di.Current = [Dir |-> dirAB, Count |-> 6, Size |-> 50]
        /\ call.di.Children = <<[Dir |-> dirABC, Count |-> 4, Size |-> 43],
                                [Dir |-> dirABE, Count |-> 2, Size |-> 7]>>

\* DirInfo("/a/b", match-all) has returned on the store of scenario A
C11_Witness ==
    /\ dirInfoOf(ScenarioA, dirAB, MatchAll)
    /\ Len(call.di.Children) = 2

\* C12: on the store of the documented example, Where("/", filter of the
\* user, depth) returns only /a/b with 7 files at depth 0; /a/b (7),
\* /a/b/c/d (5) and /a/b/e/f/g (2) at depth 1; and those three with
\* /a/b/c/d/1 (1) and /a/b/c/d/2 (2), and nothing else, at depth 2.
C12_DocExample ==
    /\ whereOf(DocExample, << >>, OfUser1, 0) =>
          /\ Len(call.dcss) = 1
          /\ dirCounts(call.dcss) = {<<dirAB, 7>>}
    /\ whereOf(DocExample, << >>, OfUser1, 1) =>
          /\ Len(call.dcss) = 3
          /\ dirCounts(call.dcss) = {<<dirAB, 7>>, <<dirABCD, 5>>, <<dirABEFG, 2>>}
    /\ whereOf(DocExample, << >>, OfUser1, 2) =>
          /\ Len(call.dcss) = 5
          /\ dirCounts(call.dcss) =
                {<<dirAB, 7>>, <<dirABCD, 5>>, <<dirABEFG, 2>>,
                 <<dirABCD1, 1>>, <<dirABCD2, 2>>}

\* Where("/", filter of the user, 2) has returned on the documented example
C12_Witness ==
    /\ whereOf(DocExample, << >>, OfUser1, 2)
    /\ Len(call.dcss) = 5


\* the count and size of the files directly in dir that match filter
ownMatching(dir, filter) ==
    IF dir \in DOMAIN own
    THEN [c |-> sumCounts(own[dir], {k \in DOMAIN own[dir] : matches(k, filter)}),
          s |-> sumSizes(own[dir], {k \in DOMAIN own[dir] : matches(k, filter)})]
    ELSE [c |-> 0, s |-> 0]

\* the sums of the lookups of the directories of S
RECURSIVE sumLookups(_, _)
sumLookups(S, filter) ==
    IF S = {} THEN [c |-> 0, s |-> 0]
    ELSE LET x == CHOOSE y \in S : TRUE
             rest == sumLookups(S \ {x}, filter)
         IN  [c |-> lookup(x, filter).c + rest.c, s |-> lookup(x, filter).s + rest.s]

\* the sum of the counts of a sequence of DirCountSizes
RECURSIVE sumOfCounts(_)
sumOfCounts(dcss) ==
    IF dcss = << >> THEN 0 ELSE Head(dcss).Count + sumOfCounts(Tail(dcss))

\* C13: in every store the builder produces (seen whenever no query is in
\* progress, a query changing nothing of it), for every directory D, every
\* descendant D2 of D and every filter, lookup(D).count >= lookup(D2).count and
\* lookup(D).size >= lookup(D2).size; and every child DirInfo lists has a count
\* and a size no greater than Current's.
C13_MonotonicContainment ==
    /\ call = NoCall =>
          \A D \in Discovered(db), D2 \in Discovered(db), F \in Filters :
              IsPrefix(D, D2) =>
                  /\ lookup(D, F).c >= lookup(D2, F).c
                  /\ lookup(D, F).s >= lookup(D2, F).s
    /\ DirInfoOK =>
          \A i \in DOMAIN call.di.Children :
              /\ call.di.Children[i].Count <= call.di.Current.Count
              /\ call.di.Children[i].Size <= call.di.Current.Size

\* DirInfo listed two children, the first with more files than the second
\* and fewer than Current
C13_Witness ==
    /\ DirInfoOK
    /\ Len(call.di.Children) = 2
    /\ call.di.Children[1].Count > call.di.Children[2].Count
    /\ call.di.Children[1].Count < call.di.Current.Count

\* C14: in every store the builder produces (seen whenever no query is in
\* progress), for every discovered directory D and every filter, the sum of
\* lookup(c) over the children c of D plus the count (size) of the matching
\* files directly in D equals lookup(D).count (size); and the counts of the
\* children DirInfo reports never sum to more than Current.Count.
C14_ChildrenComplete ==
    /\ call = NoCall =>
          \A D \in Discovered(db), F \in Filters :
              /\ sumLookups(Range(dbChildren(db, D)), F).c + ownMatching(D, F).c
                    = lookup(D, F).c
              /\ sumLookups(Range(dbChildren(db, D)), F).s + ownMatching(D, F).s
                    = lookup(D, F).s
    /\ DirInfoOK => sumOfCounts(call.di.Children) <= call.di.Current.Count

\* DirInfo of a directory with a matching file of its own and matching files
\* in two children
C14_Witness ==
    /\ DirInfoOK
    /\ Len(call.di.Children) = 2
    /\ ownMatching(call.dir, call.filter).c = 1
    /\ sumOfCounts(call.di.Children) = 2
    /\ call.di.Current.Count = 3


\* what Where(dir, filter, depth) returns run alone against the store
whereAlone(c) == Where(db, c.dir, c.filter, c.depth, 0)

\* what DirInfo(dir, filter) returns run alone against the store
dirInfoAlone(c) == DirInfo(db, c.dir, c.filter, 0, 0)

\* C15: no DirInfo or Where call changes the store or the Tree (the store is
\* the one the call started on, and stays open), and every call that runs
\* interleaved with other callers' calls returns exactly the result and the
\* error it returns when run alone.
C15_StatelessQueries ==
    \A p \in Callers :
        /\ callers[p].pc # "idle" => (db = callers[p].store /\ phase = "open")
        /\ callers[p].pc # "panic"
        /\ (callers[p].pc = "done" /\ callers[p].op = "Where") =>
              /\ callers[p].err = whereAlone(callers[p]).err
              /\ callers[p].err = NilErr =>
                    callers[p].dcss = whereAlone(callers[p]).dcss
        /\ (callers[p].pc = "done" /\ callers[p].op = "DirInfo") =>
              /\ callers[p].err = dirInfoAlone(callers[p]).err
              /\ callers[p].di = dirInfoAlone(callers[p]).di

\* one caller has the five entries of its depth 2 result while the other is
\* in the second round of a call with another filter
C15_Witness ==
    /\ nobs = Len(DocExample)
    /\ callers[1].pc = "done"
    /\ callers[1].op = "Where"
    /\ Len(callers[1].dcss) = 5
    /\ callers[2].pc = "collapse"
    /\ callers[2].ctx = "child"
    /\ callers[2].i = 1
    /\ callers[2].filter # callers[1].filter

\* the number of directories below dir that are reached by going from a
\* directory with a single qualifying child to that child
RECURSIVE singleChildChain(_, _)
singleChildChain(dir, filter) ==
    IF Cardinality(qualifying(dir, filter)) = 1
    THEN 1 + singleChildChain(CHOOSE c \in qualifying(dir, filter) : TRUE, filter)
    ELSE 0

\* C20: where0's loop ends after at most as many iterations as the single-child
\* chain below its directory is long (a child counting as one when it holds
\* files matching the filter): it never runs more iterations than that, at
\* that many its condition is false, every directory it asks for is an
\* immediate child of the one before, none is asked for twice; and Where's
\* depth loop never runs more than depth rounds.
C20_CollapseTerminates ==
    \A p \in Callers :
        /\ callers[p].pc = "collapse" =>
              /\ callers[p].iters <= singleChildChain(callers[p].start, callers[p].filter)
              /\ callers[p].iters = singleChildChain(callers[p].start, callers[p].filter)
                    => ~IsSameAsChild(callers[p].di)
              /\ Len(callers[p].visited) = callers[p].iters + 1
              /\ \A k \in 1..callers[p].iters :
                    /\ Len(callers[p].visited[k + 1]) > 0
                    /\ Parent(callers[p].visited[k + 1]) = callers[p].visited[k]
              /\ \A j, k \in DOMAIN callers[p].visited :
                    callers[p].visited[j] = callers[p].visited[k] => j = k
        /\ callers[p].pc \in {"collapse", "depth", "children"} =>
              callers[p].i <= callers[p].depth

\* where0's loop has run twice, from "/" down a chain of two single children
C20_Witness ==
    /\ callers[1].pc = "collapse"
    /\ callers[1].start = << >>
    /\ callers[1].iters = 2
    /\ singleChildChain(<< >>, callers[1].filter) = 2


\* the file (1-based) that holds path
holders(path) == {f \in 1..wk.n : path \in Range(wk.files[f])}

\* C16: with n >= 1 output files and successful writes, the k-th path the walk
\* delivers (0-based) is written to file k mod n and to no other file, once,
\* in the order of delivery; so every path delivered is in exactly one file
\* and the files' line counts differ by at most one.
C16_RoundRobin ==
    (wk.pc \in {"walking", "walked", "scheduled"} /\ wk.n >= 1) =>
        /\ \A k \in 0..(Len(wk.seen) - 1) :
              /\ holders(wk.seen[k + 1]) = {(k % wk.n) + 1}
              /\ wk.files[(k % wk.n) + 1][(k \div wk.n) + 1] = wk.seen[k + 1]
        /\ \A f \in 1..wk.n :
              \A a, b \in DOMAIN wk.files[f] :
                  wk.files[f][a] = wk.files[f][b] => a = b
        /\ \A f, g \in 1..wk.n : Len(wk.files[f]) - Len(wk.files[g]) <= 1

\* three paths went to two files: two to the first, one to the second
C16_Witness ==
    /\ wk.pc = "walked"
    /\ wk.n = 2
    /\ Len(wk.files[1]) = 2
    /\ Len(wk.files[2]) = 1

\* C17: after a successful walk into n output files exactly n stat jobs are
\* submitted, the j-th for the j-th output file (walk.0 .. walk.(n-1), also
\* the files that received no path): its command names that file, its only
\* dep group is the given dependency group, its rep group the given one and
\* its retries are 3; and, the queue holding no job before, these n jobs are
\* then the jobs of the queue.
C17_StatJobs ==
    wk.pc = "scheduled" =>
        /\ Len(wk.submitted) = wk.n
        /\ \A j \in 1..wk.n :
              /\ wk.submitted[j].Cmd = [sub |-> "stat", arg |-> walkOutputFile(wk.outputDir, j - 1)]
              /\ wk.submitted[j].DepGroups = <<wk.depGroup>>
              /\ wk.submitted[j].RepGroup = wk.repGroup
              /\ wk.submitted[j].Retries = 3
              /\ pending(wk.submitted[j]) \in queue
        /\ Cardinality(queue) = wk.n

\* a walk of one path into three files has scheduled its stat jobs
C17_Witness ==
    /\ wk.pc = "scheduled"
    /\ wk.n = 3
    /\ Len(wk.seen) = 1
    /\ wk.files[3] = << >>
    /\ Len(wk.submitted) = 3


\* the queue entries of the jobs of the run of call c with subcommand sub
jobsOf(c, sub) ==
    {e \in queue : \E j \in DOMAIN mc[c].jobs :
                      e.job = mc[c].jobs[j] /\ e.job.Cmd.sub = sub}

\* C18: in every execution of the queue the tidy job of a multi run has not
\* started unless every combine job of that run, and with them every other
\* job in the queue (walk and stat jobs), is complete; and the tidy job
\* depends on the run's dep group unique, to which every combine job belongs.
C18_TidyLast ==
    \A c \in MultiCalls : \A e \in queue :
        (e.job.Cmd.sub = "tidy" /\ mc[c].pc = "done"
            /\ e.job.Cmd.root = mc[c].outputRoot) =>
            /\ e.job.Dependencies = <<mc[c].unique>>
            /\ Cardinality(jobsOf(c, "combine")) = Len(mc[c].args)
            /\ \A k \in jobsOf(c, "combine") : k.job.DepGroups = <<mc[c].unique>>
            /\ e.state # "pending" =>
                  \A k \in queue \ {e} : k.state = "complete"

\* the tidy job runs after two walks, their stat jobs and two combines
C18_Witness ==
    /\ mc[1].pc = "done"
    /\ Len(mc[1].args) = 2
    /\ \E e \in queue : e.job.Cmd.sub = "tidy" /\ e.state = "running"
    /\ Cardinality({k \in queue : k.job.Cmd.sub = "stat"}) = 2
    /\ Cardinality(jobsOf(1, "combine")) = 2

C21_StatJobsAfterWalk ==
    /\ (wk.pc # "init" /\ (queue # {} \/ wk.submitted # << >>)) =>
          /\ wk.pc = "scheduled"
          /\ wk.returned
          /\ \A k \in DOMAIN wk.seen : \E f \in 1..wk.n : wk.seen[k] \in Range(wk.files[f])
    /\ wk.pc \in {"walking", "walked", "died", "panic"} => queue = {}

\* a walk of three paths into two files has returned and its stat jobs are
\* in the queue
C21_Witness ==
    /\ wk.pc = "scheduled"
    /\ wk.returned
    /\ Len(wk.seen) = 3
    /\ wk.n = 2
    /\ Cardinality(queue) = 2


TypeOK ==
    /\ phase \in {"build", "open"}
    /\ nobs \in 0..Len(DocExample)
    /\ Discovered(db) \subseteq DirUniverse \cup ExampleDirs
    /\ DOMAIN own \subseteq Discovered(db)
    /\ \A p \in Callers :
          callers[p].pc \in {"idle", "collapse", "depth", "children", "done", "panic"}
====
